---- MODULE Spec2Model ----
(***************************************************************************)
(* Model of the expense manager: the flat user file and the functions that *)
(* read and append it (main.py and src/auth.py), the Streamlit script run  *)
(* of main.py with its session state and the expense file, and the two     *)
(* UserAccount classes, the SMS classifier's patterns, and the policy      *)
(* recommendation of models/policy_suggestions.py.                         *)
(*                                                                         *)
(* Text typed by the user is a sequence of one-character strings, so that  *)
(* the CSV reader's type inference can look at the characters.  Amounts    *)
(* are whole rupees.                                                       *)
(***************************************************************************)
EXTENDS Integers, Sequences, FiniteSets, TLC

VARIABLES
    users_file,      \* data/users.csv: [empty, columns, rows]
    session_state,   \* st.session_state of main.py
    expenses_file,   \* data/expenses.csv: [exists, rows]
    user_account,    \* main.py's UserAccount object: [balance, transactions]
    spam_account,    \* spam_classifier.py's UserAccount object: [balance, transactions]
    model_files,     \* the state of the two .pkl files of the classifier
    page,            \* what the last script run of main.py rendered: [name, buttons]
    last,            \* the last call or script run: what ran, its inputs, its result
    policy_data,     \* the policy dataset: the Expected ROI of each row, in percent
    recommendation   \* what the last recommend_policy call showed

\* The most rows the user file grows to.
MaxUsers == 2

\* The most rows the expense file and a transaction list grow to.
MaxExpenses == 2

\* The largest balance a credit is tried on.
MaxBalance == 20000

\* ------------------------------------------------------------------ text

Digits == {"0", "1", "2", "3", "4", "5", "6", "7", "8", "9"}

\* The usernames tried: the empty string, a name and a number.
Usernames == {<<>>, <<"a">>, <<"7">>}

\* The passwords tried.
Passwords == {"pw", "qx"}

\* hashlib.sha256(password.encode()).hexdigest(), for the passwords tried.
hash_password(password) ==
    CASE password = "pw" -> "30c952fab122c3f9759f02a6d95c3758b246b4fee239957b2d4fee46e26170c4"
      [] password = "qx" -> "d6af0b0da416de4d5386bd22defd39a8c449e520a92ebe39d76928747a989671"

\* ------------------------------------------------- pandas.read_csv values

\* A value of a column: NaN, an int64, a float64 with a whole value, or a str.
NaN == [kind |-> "nan", n |-> 0, s |-> <<>>]
IntValue(n) == [kind |-> "int", n |-> n, s |-> <<>>]
FloatValue(n) == [kind |-> "float", n |-> n, s |-> <<>>]
Str(s) == [kind |-> "str", n |-> 0, s |-> s]

\* A field pandas.read_csv reads as missing: the empty field, and the default
\* na_values such as NA.
IsNA(field) == field = <<>> \/ field = <<"N", "A">>

\* A field the reader converts to an integer.
IsInt(field) == Len(field) > 0 /\ \A i \in 1..Len(field) : field[i] \in Digits

\* A field the reader converts to a float: of the texts that occur, digits
\* followed by ".0" (what to_csv writes for a whole float64).
IsFloat(field) ==
    /\ Len(field) > 2
    /\ SubSeq(field, Len(field) - 1, Len(field)) = <<".", "0">>
    /\ IsInt(SubSeq(field, 1, Len(field) - 2))

DigitValue(c) ==
    CASE c = "0" -> 0 [] c = "1" -> 1 [] c = "2" -> 2 [] c = "3" -> 3 [] c = "4" -> 4
      [] c = "5" -> 5 [] c = "6" -> 6 [] c = "7" -> 7 [] c = "8" -> 8 [] c = "9" -> 9

DigitChar(d) ==
    CASE d = 0 -> "0" [] d = 1 -> "1" [] d = 2 -> "2" [] d = 3 -> "3" [] d = 4 -> "4"
      [] d = 5 -> "5" [] d = 6 -> "6" [] d = 7 -> "7" [] d = 8 -> "8" [] d = 9 -> "9"

\* int(field) for a field of digits.
RECURSIVE IntOf(_)
IntOf(field) ==
    IF field = <<>> THEN 0
    ELSE 10 * IntOf(SubSeq(field, 1, Len(field) - 1)) + DigitValue(field[Len(field)])

\* The whole value of a numeric field.
NumberOf(field) ==
    IF IsFloat(field) THEN IntOf(SubSeq(field, 1, Len(field) - 2)) ELSE IntOf(field)

\* str(n) for n >= 0.
RECURSIVE DigitsOf(_)
DigitsOf(n) ==
    IF n < 10 THEN <<DigitChar(n)>>
    ELSE Append(DigitsOf(n \div 10), DigitChar(n % 10))

\* pandas.read_csv on one column of text fields: missing fields become NaN; the
\* column is numeric when every field that is not missing is a number (int64 when
\* all are integers and none is missing, float64 otherwise), and a column of
\* strings otherwise.
read_csv_column(fields) ==
    LET idx     == 1..Len(fields)
        present == {i \in idx : ~IsNA(fields[i])}
        numeric == \A i \in present : IsInt(fields[i]) \/ IsFloat(fields[i])
        int64   == present = idx /\ \A i \in idx : IsInt(fields[i])
    IN [i \in idx |->
          IF IsNA(fields[i]) THEN NaN
          ELSE IF numeric /\ int64 THEN IntValue(NumberOf(fields[i]))
          ELSE IF numeric THEN FloatValue(NumberOf(fields[i]))
          ELSE Str(fields[i])]

\* DataFrame.to_csv on one value: NaN is written as the empty field, an int64 as
\* its digits, a whole float64 with ".0", a str as it is.
to_csv_field(value) ==
    CASE value.kind = "nan"   -> <<>>
      [] value.kind = "int"   -> DigitsOf(value.n)
      [] value.kind = "float" -> DigitsOf(value.n) \o <<".", "0">>
      [] value.kind = "str"   -> value.s

\* Python's == between a value of a read column and a str: only a str equals a str.
EqStr(value, text) == value.kind = "str" /\ value.s = text

\* ------------------------------------------------------------ the user file

\* The columns the code looks up.
Required == {"username", "password"}

\* data/users.csv as [empty, columns, rows].  empty: the file has no line at all,
\* which pandas.read_csv refuses (EmptyDataError).  columns: the columns among
\* Required that the header line names.  rows: the lines after the header, each the
\* text of its two fields.
OkFile == [empty |-> FALSE, columns |-> Required, rows |-> <<>>]

EmptyFile == [empty |-> TRUE, columns |-> {}, rows |-> <<>>]

BadHeaderFile(columns) == [empty |-> FALSE, columns |-> columns, rows |-> <<>>]

\* The file is one the program itself could have written.
WellFormed(file) == ~file.empty /\ file.columns = Required

\* pd.DataFrame(columns=["username", "password"])
EmptyFrame == [columns |-> Required, username |-> <<>>, password |-> <<>>]

\* pd.read_csv(users_file) on a file that is not empty: the columns the header
\* names, and the columns' values as read.
read_csv(file) ==
    [columns  |-> file.columns,
     username |-> read_csv_column([i \in 1..Len(file.rows) |-> file.rows[i].username]),
     password |-> [i \in 1..Len(file.rows) |-> file.rows[i].password]]

\* load_users of main.py ("main") and of src/auth.py ("auth"): both answer a read
\* error with an empty frame; only main.py checks the columns.
load_users(mod, file) ==
    IF file.empty THEN EmptyFrame
    ELSE IF mod = "main" /\ file.columns # Required THEN EmptyFrame
    ELSE read_csv(file)

\* The rows of users whose username equals username and whose password equals
\* hashed_password.  A stored password is compared as the text it is: a hex digest
\* with a letter in it, as those of the passwords tried, is read as a string.
matching_rows(users, username, hashed_password) ==
    {i \in 1..Len(users.username) :
        /\ EqStr(users.username[i], username)
        /\ users.password[i] = hashed_password}

\* authenticate without the try/except of src/auth.py: the KeyError escapes.
authenticate_uncaught(mod, file, username, password) ==
    LET users == load_users(mod, file)
        hashed_password == hash_password(password)
    IN IF users.columns # Required THEN "KeyError"
       ELSE IF matching_rows(users, username, hashed_password) # {} THEN "True"
       ELSE "False"

\* What authenticate returns: "True" or "False".  In src/auth.py a frame without
\* one of the columns raises KeyError, which authenticate catches; in main.py
\* load_users never gives such a frame.
authenticate(mod, file, username, password) ==
    LET users == load_users(mod, file)
        hashed_password == hash_password(password)
    IN IF users.columns # Required THEN "False"
       ELSE IF matching_rows(users, username, hashed_password) # {} THEN "True"
       ELSE "False"

\* username in users["username"].values
username_taken(users, username) ==
    \E i \in 1..Len(users.username) : EqStr(users.username[i], username)

\* save_user without the hashing: the row holds the password as typed.
new_user_plaintext(username, password) ==
    [username |-> username, password |-> password]

\* The row save_user writes.
new_user(username, password) ==
    [username |-> username, password |-> hash_password(password)]

\* save_user: one line appended to the file, without a header.  The first line of
\* a file is its header, so a line appended to an empty file becomes a header that
\* names neither column.
save_user(file, username, password) ==
    IF file.empty THEN [file EXCEPT !.empty = FALSE]
    ELSE [file EXCEPT !.rows = Append(@, new_user(username, password))]

\* What register_user returns, "True" or "False", or "KeyError" when
\* users["username"] raises (src/auth.py on a file without that column).
register_user_ret(mod, file, username) ==
    LET users == load_users(mod, file)
    IN IF "username" \notin users.columns THEN "KeyError"
       ELSE IF username_taken(users, username) THEN "False"
       ELSE "True"

\* The user file after register_user.
register_user_file(mod, file, username, password) ==
    IF register_user_ret(mod, file, username) = "True"
    THEN save_user(file, username, password)
    ELSE file

\* --------------------------------------------------------- the expense file

\* str(date.today()), and the date the date input holds.
Today == "2024-05-01"

\* The descriptions tried for an expense of category Others.
Descriptions == {<<>>, <<"a">>, <<"0", "7">>}

\* Two of the categories of the select box; only Others has a description input.
Categories == {"Food", "Others"}

\* The amounts tried in the Add Expense number input (min_value=0.0).
ExpenseAmounts == {0, 250}

\* data/expenses.csv as [exists, rows]: a row is the text of its description field
\* and its other fields as values (type is "" where the field is empty).
NoExpensesFile == [exists |-> FALSE, rows |-> <<>>]

\* pd.read_csv("data/expenses.csv") if the file exists else an empty frame: the
\* rows, with the description column as read.
read_expenses(file) ==
    LET described ==
            read_csv_column([i \in 1..Len(file.rows) |-> file.rows[i].description])
    IN [i \in 1..Len(file.rows) |->
          [file.rows[i] EXCEPT !.description = described[i]]]

\* frame.to_csv("data/expenses.csv", index=False)
to_csv(frame) ==
    [exists |-> TRUE,
     rows   |-> [i \in 1..Len(frame) |->
                   [frame[i] EXCEPT !.description = to_csv_field(@)]]]

\* The row of the Add Expense form; the frame has no type column for it.
expense_data(amount, category, expense_date, description) ==
    [type |-> "", amount |-> amount, category |-> category, date |-> expense_date,
     description |-> Str(description)]

\* The Add Expense button: read the file, append the row, write the file.
add_expense(file, amount, category, expense_date, description) ==
    to_csv(Append(read_expenses(file),
                  expense_data(amount, category, expense_date, description)))

\* ------------------------------------------------------------ UserAccount

\* initial_balance=10000.0
InitialBalance == 10000

\* UserAccount.__init__ of main.py: the transactions are the expense file as read.
UserAccount(initial_balance, file) ==
    [balance |-> initial_balance, transactions |-> read_expenses(file)]

\* The transaction a credit or a debit of main.py records.
transaction(type, amount, category, description) ==
    [type |-> type, amount |-> amount, category |-> category, date |-> Today,
     description |-> Str(description)]

\* UserAccount.credit of main.py: the account after it.
credit(account, amount) ==
    [balance      |-> account.balance + amount,
     transactions |-> Append(account.transactions,
                             transaction("credit", amount, "Credit", <<"C", "r", "e", "d", "i", "t">>))]

\* debit without its guard.
sufficient_unguarded(balance, amount) == TRUE

\* if self.balance >= amount
sufficient(balance, amount) == balance >= amount

\* debit that records the transaction even when the balance does not suffice.
debit_recording(account, amount) ==
    [balance      |-> IF sufficient(account.balance, amount)
                      THEN account.balance - amount ELSE account.balance,
     transactions |-> Append(account.transactions,
                             transaction("debit", amount, "Debit", <<"D", "e", "b", "i", "t">>))]

\* UserAccount.debit of main.py: the account after it.
debit(account, amount) ==
    IF sufficient(account.balance, amount)
    THEN [balance      |-> account.balance - amount,
          transactions |-> Append(account.transactions,
                                  transaction("debit", amount, "Debit", <<"D", "e", "b", "i", "t">>))]
    ELSE account

\* UserAccount.__init__ of spam_classifier.py.
SpamUserAccount(initial_balance) == [balance |-> initial_balance, transactions |-> <<>>]

\* UserAccount.credit of spam_classifier.py.
spam_credit(account, amount) ==
    [balance      |-> account.balance + amount,
     transactions |-> Append(account.transactions, [type |-> "credit", amount |-> amount])]

\* UserAccount.debit of spam_classifier.py.
spam_debit(account, amount) ==
    IF sufficient(account.balance, amount)
    THEN [balance      |-> account.balance - amount,
          transactions |-> Append(account.transactions, [type |-> "debit", amount |-> amount])]
    ELSE account

\* ------------------------------------------------------- the SMS classifier

\* A message is its text, a sequence of characters.  The pieces of the texts
\* tried: words the patterns find ("Cr" only when case is ignored), amounts with
\* decimals, with commas and without decimals, and another word.
Sp == <<" ">>
Hello == <<"h", "e", "l", "l", "o">>
Debited == <<"d", "e", "b", "i", "t", "e", "d">>
Credited == <<"c", "r", "e", "d", "i", "t", "e", "d">>
Cr == <<"C", "r">>
INR4000 == <<"I", "N", "R", " ", "4", "0", "0", "0", ".", "0", "0">>
INR12000 == <<"I", "N", "R", " ", "1", "2", ",", "0", "0", "0", ".", "0", "0">>
INR500 == <<"I", "N", "R", " ", "5", "0", "0">>

\* The messages tried.
Messages ==
    {Hello,
     INR4000 \o Sp \o Debited,
     INR12000 \o Sp \o Debited,
     INR4000 \o Sp \o Credited,
     INR500 \o Sp \o Credited,
     Credited \o Sp \o INR4000 \o Sp \o Debited,
     Cr \o Sp \o INR500 \o Sp \o INR4000}

\* The lower case of a character, for the capitals of the texts tried.
lower(c) ==
    CASE c = "C" -> "c" [] c = "D" -> "d" [] c = "I" -> "i" [] c = "N" -> "n"
      [] c = "R" -> "r" [] OTHER -> c

\* re.search of a literal with re.IGNORECASE: the literal occurs in the text.
search_literal(literal, text) ==
    \E i \in 1..(Len(text) - Len(literal) + 1) :
        \A j \in 1..Len(literal) : lower(text[i + j - 1]) = literal[j]

\* The alternatives of debit_pattern and of credit_pattern.
DebitLiterals ==
    {<<"d", "e", "b", "i", "t", "e", "d">>,
     <<"w", "i", "t", "h", "d", "r", "a", "w", "a", "l">>,
     <<"d", "e", "b", "i", "t", "e", "d", " ", "f", "r", "o", "m", " ", "y", "o", "u", "r", " ", "a", "c", "c", "o", "u", "n", "t">>,
     <<"d", "r">>}
CreditLiterals ==
    {<<"c", "r", "e", "d", "i", "t", "e", "d">>,
     <<"d", "e", "p", "o", "s", "i", "t">>,
     <<"c", "r", "e", "d", "i", "t", "e", "d", " ", "t", "o", " ", "y", "o", "u", "r", " ", "a", "c", "c", "o", "u", "n", "t">>,
     <<"c", "r">>}

\* debit_pattern.search(message), credit_pattern.search(message): whether there
\* is a match.
debit_pattern(message) == \E literal \in DebitLiterals : search_literal(literal, message)
credit_pattern(message) == \E literal \in CreditLiterals : search_literal(literal, message)

\* The characters of [\d,]
DigitsOrComma == Digits \cup {","}

\* The length of the match of ([\d,]+\.\d{1,2}) at position i of text, 0 when it
\* does not match there: the longest run of digits and commas, a dot, and one or
\* two digits.
amount_group_at(text, i) ==
    LET run == CHOOSE n \in 0..(Len(text) - i + 1) :
                   /\ \A k \in i..(i + n - 1) : text[k] \in DigitsOrComma
                   /\ i + n > Len(text) \/ text[i + n] \notin DigitsOrComma
        dot == i + run
        one == dot + 1 <= Len(text) /\ text[dot + 1] \in Digits
        two == one /\ dot + 2 <= Len(text) /\ text[dot + 2] \in Digits
    IN IF run > 0 /\ dot <= Len(text) /\ text[dot] = "." /\ one
       THEN run + 1 + (IF two THEN 2 ELSE 1)
       ELSE 0

\* Where the group starts for a match of INR\s? at position p.
amount_group_start(text, p) ==
    IF p + 3 <= Len(text) /\ text[p + 3] = " " THEN p + 4 ELSE p + 3

\* amount_pattern.search(message): group(1) of the first match, <<>> without one.
amount_pattern(message) ==
    LET matches == {p \in 1..(Len(message) - 2) :
                       /\ SubSeq(message, p, p + 2) = <<"I", "N", "R">>
                       /\ amount_group_at(message, amount_group_start(message, p)) > 0}
        first   == CHOOSE p \in matches : \A q \in matches : p <= q
        start   == amount_group_start(message, first)
    IN IF matches = {} THEN <<>>
       ELSE SubSeq(message, start, start + amount_group_at(message, start) - 1)

\* float(amount_str.replace(',', '')), in whole rupees: the decimals of the
\* texts tried are zeros.
amount_of(amount_str) ==
    LET replaced == SelectSeq(amount_str, LAMBDA c : c # ",")
        dot      == CHOOSE i \in 1..Len(replaced) : replaced[i] = "."
    IN IntOf(SubSeq(replaced, 1, dot - 1))

\* extract_transaction_details with the credit pattern searched first.
extract_credit_first(message) ==
    [type   |-> IF credit_pattern(message) THEN "credit"
                ELSE IF debit_pattern(message) THEN "debit"
                ELSE "None",
     amount |-> IF amount_pattern(message) # <<>>
                THEN amount_of(amount_pattern(message)) ELSE 0]

\* extract_transaction_details: [type, amount], type "None" for None.
extract_transaction_details(message) ==
    [type   |-> IF debit_pattern(message) THEN "debit"
                ELSE IF credit_pattern(message) THEN "credit"
                ELSE "None",
     amount |-> IF amount_pattern(message) # <<>>
                THEN amount_of(amount_pattern(message)) ELSE 0]

\* The state of a .pkl file: it loads, it does not exist, or joblib.load raises.
FileStates == {"ok", "missing", "unloadable"}

\* Both .pkl files load.
AllModelFiles == [model |-> "ok", vectorizer |-> "ok"]

\* load_model_and_vectorizer: whether model and vectorizer are objects (TRUE) or
\* None, None (FALSE): a missing file gives None for it, and an exception while
\* loading gives None, None.
load_model_and_vectorizer(files) == files.model = "ok" /\ files.vectorizer = "ok"

\* classify_message, given what model.predict answers for the message.
classify_message(files, message, prediction) ==
    IF ~load_model_and_vectorizer(files) THEN "Error: Model or vectorizer not loaded."
    ELSE IF prediction = 1 THEN "spam"
    ELSE "ham"

\* ------------------------------------------------------ policy suggestions

\* The most rows the policy dataset has.
MaxPolicies == 4

\* The values of Expected ROI tried, in percent: one for each bin of the cut, and
\* the edge of the first bin.  (train_models fits a classifier on the ROI
\* categories when the module is imported, which needs every row to have one.)
ROIs == {3, 5, 8, 12, 20}

\* pd.cut(policy_data['Expected ROI'], bins=[0, 5, 10, 15, np.inf], labels=[...]):
\* the bins are closed on the right, and a value in no bin has the category NaN.
ROICategory(roi) ==
    IF roi > 0 /\ roi <= 5 THEN "Low"
    ELSE IF roi > 5 /\ roi <= 10 THEN "Medium"
    ELSE IF roi > 10 /\ roi <= 15 THEN "High"
    ELSE IF roi > 15 THEN "Very High"
    ELSE "NaN"

\* policy_data after preprocess_data: a row is the position of the policy in the
\* dataset, its Expected ROI and its ROI Category.
preprocess_data(data) ==
    [i \in 1..Len(data) |->
        [policy |-> i, roi |-> data[i], category |-> ROICategory(data[i])]]

\* The categories spending_model.predict answers.
SpendingCategories == {"Low", "Medium", "High"}

\* The monthly investments (min_value=0.0) and the durations in months tried.
Investments == {0, 100}
Durations == {1, 12}

\* policy_data[policy_data['ROI Category'] ...] for the predicted category; a NaN
\* category differs from 'Very High'.
suitable_policies(frame, predicted_category) ==
    SelectSeq(frame,
              LAMBDA row :
                  IF predicted_category = "Low" THEN row.category = "Low"
                  ELSE IF predicted_category = "Medium" THEN row.category # "Very High"
                  ELSE row.category = "High")

\* The Potential Return ($) column, in hundredths: investment x duration x
\* Expected ROI / 100.
with_potential_return(frame, user_investment, investment_duration) ==
    [i \in 1..Len(frame) |->
        [policy    |-> frame[i].policy, roi |-> frame[i].roi,
         category  |-> frame[i].category,
         potential |-> user_investment * investment_duration * frame[i].roi]]

\* The frame without its row i.
drop(frame, i) == SubSeq(frame, 1, i - 1) \o SubSeq(frame, i + 1, Len(frame))

\* frame.nsmallest(n, 'Potential Return ($)')
RECURSIVE nsmallest(_, _)
nsmallest(n, frame) ==
    IF n = 0 \/ frame = <<>> THEN <<>>
    ELSE LET i == CHOOSE i \in 1..Len(frame) :
                      /\ \A j \in 1..Len(frame) : frame[j].potential >= frame[i].potential
                      /\ \A j \in 1..(i - 1) : frame[j].potential > frame[i].potential
         IN <<frame[i]>> \o nsmallest(n - 1, drop(frame, i))

\* frame.nlargest(n, 'Potential Return ($)'): the n rows of largest potential
\* return in descending order, the earlier row first among equal ones.
RECURSIVE nlargest(_, _)
nlargest(n, frame) ==
    IF n = 0 \/ frame = <<>> THEN <<>>
    ELSE LET i == CHOOSE i \in 1..Len(frame) :
                      /\ \A j \in 1..Len(frame) : frame[j].potential <= frame[i].potential
                      /\ \A j \in 1..(i - 1) : frame[j].potential < frame[i].potential
         IN <<frame[i]>> \o nlargest(n - 1, drop(frame, i))

\* No policy is recommended.
NoPolicy == [policy |-> 0, roi |-> 0, category |-> "NaN", potential |-> 0]

\* recommend_policy has not run.
NoRecommendation ==
    [predicted |-> "none", investment |-> 0, duration |-> 0, top |-> <<>>,
     best |-> NoPolicy, shown |-> {}]

\* recommend_policy: the top policies it charts and the policy it recommends.
recommend_policy(user_investment, investment_duration, frame, predicted_category) ==
    LET suitable == suitable_policies(frame, predicted_category)
        returns  == with_potential_return(suitable, user_investment, investment_duration)
        top_policies == nlargest(3, returns)
    IN IF suitable # <<>>
       THEN [predicted |-> predicted_category, investment |-> user_investment,
             duration |-> investment_duration, top |-> top_policies,
             best |-> top_policies[1],
             shown |-> {"Top 3 Recommended Policies:", "Recommended Policy for You:"}]
       ELSE [predicted |-> predicted_category, investment |-> user_investment,
             duration |-> investment_duration, top |-> <<>>, best |-> NoPolicy,
             shown |-> {"No suitable policies found for your spending category."}]

\* A policy dataset for the runs that do not read it.
SomePolicies == <<5, 8, 12, 20>>

\* ------------------------------------------------------------ session state

\* st.session_state with the defaults the main flow sets (logged_in is the key of
\* src/auth.py).
DefaultSession ==
    [username |-> <<>>, is_profile_set |-> FALSE, is_signing_up |-> FALSE,
     logged_in |-> FALSE]

\* Nothing has run yet.
NoCall ==
    [op |-> "none", mod |-> "none", u |-> <<>>, p |-> "", ret |-> "none",
     amount |-> 0, category |-> "", description |-> <<>>, shown |-> {},
     message |-> <<>>, type |-> ""]

\* Nothing is rendered yet.
NoPage == [name |-> "none", buttons |-> {}]

vars ==
    <<users_file, session_state, expenses_file, user_account, spam_account,
      model_files, page, last, policy_data, recommendation>>

\* The user file is what is on disk when the program starts: the file the program
\* creates (header only), an empty file, or a file whose header lacks a column.
InitialFiles ==
    {OkFile, EmptyFile} \cup {BadHeaderFile(c) : c \in (SUBSET Required) \ {Required}}

\* ------------------------------------------------- calls of the auth functions

Init ==
    /\ users_file \in InitialFiles
    /\ session_state = DefaultSession
    /\ expenses_file = NoExpensesFile
    /\ user_account = UserAccount(InitialBalance, NoExpensesFile)
    /\ spam_account = SpamUserAccount(InitialBalance)
    /\ model_files = AllModelFiles
    /\ page = NoPage
    /\ last = NoCall
    /\ policy_data = SomePolicies
    /\ recommendation = NoRecommendation

\* authenticate(username, password) of main.py: sets the session username when a
\* row matches.
main_authenticate(u, p) ==
    LET ret == authenticate("main", users_file, u, p)
    IN /\ session_state' = IF ret = "True" THEN [session_state EXCEPT !.username = u]
                           ELSE session_state
       /\ last' = [NoCall EXCEPT !.op = "authenticate", !.mod = "main",
                                 !.u = u, !.p = p, !.ret = ret]
       /\ UNCHANGED <<users_file, expenses_file, user_account, spam_account,
                      model_files, page, policy_data, recommendation>>

\* The Login button of src/auth.py's login_signup: authenticate, then the session
\* is logged in, or cleared.
auth_login(u, p) ==
    LET ret == authenticate("auth", users_file, u, p)
    IN /\ session_state' = IF ret = "True"
                           THEN [session_state EXCEPT !.logged_in = TRUE, !.username = u]
                           ELSE DefaultSession
       /\ last' = [NoCall EXCEPT !.op = "authenticate", !.mod = "auth",
                                 !.u = u, !.p = p, !.ret = ret]
       /\ UNCHANGED <<users_file, expenses_file, user_account, spam_account,
                      model_files, page, policy_data, recommendation>>

\* register_user(username, password) of main.py or of src/auth.py.
register_user(mod, u, p) ==
    /\ Len(users_file.rows) < MaxUsers
    /\ users_file' = register_user_file(mod, users_file, u, p)
    /\ last' = [NoCall EXCEPT !.op = "register_user", !.mod = mod, !.u = u, !.p = p,
                              !.ret = register_user_ret(mod, users_file, u)]
    /\ UNCHANGED <<session_state, expenses_file, user_account, spam_account,
                   model_files, page, policy_data, recommendation>>

Authenticate == \E u \in Usernames, p \in Passwords :
    main_authenticate(u, p) \/ auth_login(u, p)

Register == \E mod \in {"main", "auth"}, u \in Usernames, p \in Passwords :
    register_user(mod, u, p)

Next == Authenticate \/ Register

Spec == Init /\ [][Next]_vars

\* --------------------------------------------- calls of the UserAccount classes

\* The balances an account is constructed with, and the amounts tried.
InitialBalances == {0, 4000, InitialBalance}
Amounts == {0, 4000, 12000}

InitAccount ==
    /\ users_file = OkFile
    /\ session_state = DefaultSession
    /\ expenses_file = NoExpensesFile
    /\ \E b \in InitialBalances : user_account = UserAccount(b, NoExpensesFile)
    /\ \E b \in InitialBalances : spam_account = SpamUserAccount(b)
    /\ model_files = AllModelFiles
    /\ page = NoPage
    /\ last = NoCall
    /\ policy_data = SomePolicies
    /\ recommendation = NoRecommendation

\* user_account.credit(amount) of main.py, with its save_transactions.
main_credit(amount) ==
    /\ Len(user_account.transactions) < MaxExpenses
    /\ user_account.balance + amount <= MaxBalance
    /\ user_account' = credit(user_account, amount)
    /\ expenses_file' = to_csv(user_account'.transactions)
    /\ last' = [NoCall EXCEPT !.op = "credit", !.mod = "main", !.amount = amount]
    /\ UNCHANGED <<users_file, session_state, spam_account, model_files, page, policy_data, recommendation>>

\* user_account.debit(amount) of main.py: save_transactions runs only when the
\* balance suffices.
main_debit(amount) ==
    /\ Len(user_account.transactions) < MaxExpenses
    /\ user_account' = debit(user_account, amount)
    /\ expenses_file' = IF sufficient(user_account.balance, amount)
                        THEN to_csv(user_account'.transactions)
                        ELSE expenses_file
    /\ last' = [NoCall EXCEPT !.op = "debit", !.mod = "main", !.amount = amount,
                   !.ret = IF sufficient(user_account.balance, amount)
                           THEN "done" ELSE "Insufficient balance!"]
    /\ UNCHANGED <<users_file, session_state, spam_account, model_files, page, policy_data, recommendation>>

\* user_account.credit(amount) of spam_classifier.py.
spam_account_credit(amount) ==
    /\ Len(spam_account.transactions) < MaxExpenses
    /\ spam_account.balance + amount <= MaxBalance
    /\ spam_account' = spam_credit(spam_account, amount)
    /\ last' = [NoCall EXCEPT !.op = "credit", !.mod = "spam", !.amount = amount]
    /\ UNCHANGED <<users_file, session_state, expenses_file, user_account,
                   model_files, page, policy_data, recommendation>>

\* user_account.debit(amount) of spam_classifier.py.
spam_account_debit(amount) ==
    /\ Len(spam_account.transactions) < MaxExpenses
    /\ spam_account' = spam_debit(spam_account, amount)
    /\ last' = [NoCall EXCEPT !.op = "debit", !.mod = "spam", !.amount = amount,
                   !.ret = IF sufficient(spam_account.balance, amount)
                           THEN "done" ELSE "Insufficient balance!"]
    /\ UNCHANGED <<users_file, session_state, expenses_file, user_account,
                   model_files, page, policy_data, recommendation>>

Credit == \E amount \in Amounts : main_credit(amount) \/ spam_account_credit(amount)

Debit == \E amount \in Amounts : main_debit(amount) \/ spam_account_debit(amount)

NextAccount == Credit \/ Debit

SpecAccount == InitAccount /\ [][NextAccount]_vars

\* ------------------------------------------------- script runs of main.py
\*
\* One action is one run of the script, top to bottom, triggered by one click.  The
\* bill splitting and investment sections of the dashboard write only session keys
\* of their own (groups, new_group_members, input_submitted) and are left out of
\* the script runs; recommend_policy is modelled as a call of its own (SpecPolicy).

\* The buttons of the pages that are modelled.
Buttons ==
    {"Login", "New User", "Sign Up", "Save Profile", "Profile", "Logout",
     "Add Expense", "Analyze SMS"}

\* The main flow without its look at is_profile_set.
gate_without_profile(session) ==
    IF session.username # <<>> THEN "dashboard" ELSE "login"

\* The main flow's choice of page: a non-empty session username, then
\* is_profile_set.
gate(session) ==
    IF session.username # <<>>
    THEN IF ~session.is_profile_set THEN "profile" ELSE "dashboard"
    ELSE "login"

\* What triggers a script run: a click on a button the last run rendered, or
\* "none" for a first load or a changed input.
Clicks == page.buttons \cup {"none"}

InitMain ==
    /\ users_file \in InitialFiles
    /\ session_state = DefaultSession
    /\ expenses_file = NoExpensesFile
    /\ user_account = UserAccount(InitialBalance, NoExpensesFile)
    /\ spam_account = SpamUserAccount(InitialBalance)
    /\ model_files \in [model : FileStates, vectorizer : FileStates]
    /\ page = NoPage
    /\ last = NoCall
    /\ policy_data = SomePolicies
    /\ recommendation = NoRecommendation

\* A script run that renders the login page.  A button reads True only in the run
\* its click triggers, and only where the run renders it.  u and p are the text of
\* the inputs next to the clicked button.
LoginPageRun(click, u, p) ==
    LET login     == click = "Login"
        login_ret == IF login THEN authenticate("main", users_file, u, p) ELSE "none"
        s1        == IF login_ret = "True"
                     THEN [session_state EXCEPT !.username = u] ELSE session_state
        s2        == IF click = "New User" THEN [s1 EXCEPT !.is_signing_up = TRUE] ELSE s1
        signup    == s2.is_signing_up /\ click = "Sign Up"
        reg_ret   == IF signup THEN register_user_ret("main", users_file, u) ELSE "none"
        s3        == IF reg_ret = "True" THEN [s2 EXCEPT !.is_signing_up = FALSE] ELSE s2
    IN /\ gate(session_state) = "login"
       /\ click \in Clicks
       /\ signup => Len(users_file.rows) < MaxUsers
       /\ session_state' = s3
       /\ users_file' = IF signup THEN register_user_file("main", users_file, u, p)
                        ELSE users_file
       /\ user_account' = UserAccount(InitialBalance, expenses_file)
       /\ page' = [name    |-> "login",
                   buttons |-> {"Login", "New User"}
                               \cup (IF s2.is_signing_up THEN {"Sign Up"} ELSE {})]
       /\ last' = [NoCall EXCEPT !.op = click, !.mod = "main", !.u = u, !.p = p,
                      !.ret = IF login THEN login_ret ELSE reg_ret]
       /\ UNCHANGED <<expenses_file, spam_account, model_files, policy_data, recommendation>>

\* A script run that renders the profile setup.
ProfilePageRun(click) ==
    /\ gate(session_state) = "profile"
    /\ click \in Clicks
    /\ session_state' = IF click = "Save Profile"
                        THEN [session_state EXCEPT !.is_profile_set = TRUE]
                        ELSE session_state
    /\ user_account' = UserAccount(InitialBalance, expenses_file)
    /\ page' = [name |-> "profile", buttons |-> {"Save Profile"}]
    /\ last' = [NoCall EXCEPT !.op = click, !.mod = "main"]
    /\ UNCHANGED <<users_file, expenses_file, spam_account, model_files, policy_data, recommendation>>

\* The Analyze SMS block without its spam branch.
analyze_sms_unfiltered(account, message, prediction) ==
    LET details == extract_transaction_details(message)
    IN IF details.type = "debit" /\ details.amount > 0
       THEN [account |-> debit(account, details.amount),
             shown   |-> {"Transaction debited and balance updated!"}]
       ELSE IF details.type = "credit" /\ details.amount > 0
       THEN [account |-> credit(account, details.amount),
             shown   |-> {"Transaction credited and balance updated!"}]
       ELSE [account |-> account, shown |-> {}]

\* The Analyze SMS block on account: the account after it and the messages shown.
analyze_sms(account, message, prediction) ==
    LET label   == classify_message(model_files, message, prediction)
        details == extract_transaction_details(message)
    IN IF label = "spam"
       THEN [account |-> account, shown |-> {"This message appears to be spam."}]
       ELSE IF details.type # "None" /\ details.amount > 0
       THEN IF details.type = "debit"
            THEN [account |-> debit(account, details.amount),
                  shown   |-> {"Non-spam message detected.",
                               "Transaction debited and balance updated!"}
                              \cup (IF sufficient(account.balance, details.amount)
                                    THEN {} ELSE {"Insufficient balance!"})]
            ELSE [account |-> credit(account, details.amount),
                  shown   |-> {"Non-spam message detected.",
                               "Transaction credited and balance updated!"}]
       ELSE [account |-> account, shown |-> {"Non-spam message detected."}]

\* A script run that renders the dashboard.  The Logout button is rendered inside
\* the block of the Profile button.
DashboardRun(click, amount, category, description, message, prediction) ==
    LET account0 == UserAccount(InitialBalance, expenses_file)
        profile  == click = "Profile"
        logout   == profile /\ click = "Logout"
        adding   == click = "Add Expense"
        sms      == click = "Analyze SMS"
        analysed == analyze_sms(account0, message, prediction)
        account1 == IF sms THEN analysed.account ELSE account0
        saved    == Len(account1.transactions) > Len(account0.transactions)
        label    == classify_message(model_files, message, prediction)
        details  == extract_transaction_details(message)
        extracts == sms /\ label # "spam"
    IN /\ gate(session_state) = "dashboard"
       /\ click \in Clicks
       /\ (adding \/ sms) => Len(expenses_file.rows) < MaxExpenses
       /\ session_state' = IF logout THEN DefaultSession ELSE session_state
       /\ user_account' = account1
       /\ expenses_file' =
              IF adding
              THEN add_expense(expenses_file, amount, category, Today,
                               IF category = "Others" THEN description ELSE <<>>)
              ELSE IF saved THEN to_csv(account1.transactions)
              ELSE expenses_file
       /\ page' = [name    |-> "dashboard",
                   buttons |-> {"Profile", "Add Expense", "Analyze SMS"}
                               \cup (IF profile THEN {"Logout"} ELSE {})]
       /\ last' = [NoCall EXCEPT !.op = click, !.mod = "main",
                      !.amount = IF adding THEN amount
                                 ELSE IF extracts THEN details.amount
                                 ELSE 0,
                      !.category = IF adding THEN category ELSE "",
                      !.description = IF adding /\ category = "Others"
                                      THEN description ELSE <<>>,
                      !.ret = IF sms THEN label ELSE "none",
                      !.shown = IF sms THEN analysed.shown ELSE {},
                      !.message = IF sms THEN message ELSE <<>>,
                      !.type = IF extracts THEN details.type ELSE ""]
       /\ UNCHANGED <<users_file, spam_account, model_files, policy_data, recommendation>>

\* A new browser session: st.session_state starts without keys, and the main flow
\* sets the defaults.
NewSession ==
    /\ page # NoPage
    /\ session_state' = DefaultSession
    /\ page' = NoPage
    /\ last' = NoCall
    /\ UNCHANGED <<users_file, expenses_file, user_account, spam_account, model_files, policy_data, recommendation>>

\* The inputs of a run whose click reads none of them.
NoText == <<>>
NoMessage == Hello

\* The clicks that read no input.
LoginPlainClicks == (Buttons \cup {"none"}) \ {"Login", "Sign Up"}
DashboardPlainClicks == (Buttons \cup {"none"}) \ {"Add Expense", "Analyze SMS"}

\* The Login button with the login inputs.
LoginClick(U, P) == \E u \in U, p \in P : LoginPageRun("Login", u, p)

\* The Sign Up button with the signup inputs.
SignUpClick(U, P) == \E u \in U, p \in P : LoginPageRun("Sign Up", u, p)

\* Any other run of the login page.
LoginPageOther == \E click \in LoginPlainClicks : LoginPageRun(click, NoText, "")

ProfilePage == \E click \in Buttons \cup {"none"} : ProfilePageRun(click)

\* The Add Expense button with the expense inputs.
AddExpenseClick(A, D) ==
    \E amount \in A, category \in Categories, description \in D :
        DashboardRun("Add Expense", amount, category, description, NoMessage, 0)

\* The Analyze SMS button with the message, and what the classifier predicts.
AnalyzeSMSClick(M) ==
    \E message \in M, prediction \in {0, 1} :
        DashboardRun("Analyze SMS", 0, "Food", NoText, message, prediction)

\* Any other run of the dashboard.
DashboardOther ==
    \E click \in DashboardPlainClicks :
        DashboardRun(click, 0, "Food", NoText, NoMessage, 0)

NextMain(U, P, A, D, M) ==
    \/ LoginClick(U, P)
    \/ SignUpClick(U, P)
    \/ LoginPageOther
    \/ ProfilePage
    \/ AddExpenseClick(A, D)
    \/ AnalyzeSMSClick(M)
    \/ DashboardOther
    \/ NewSession

\* The script runs with every username and password tried and one expense input.
InitGate == InitMain /\ model_files = AllModelFiles

NextGate ==
    NextMain(Usernames, Passwords, {250}, {<<>>}, {INR4000 \o Sp \o Credited})

SpecGate == InitGate /\ [][NextGate]_vars

\* The script runs with one username and password and every expense input tried.
InitLedger == InitMain /\ users_file = OkFile

NextLedger == NextMain({<<"a">>}, {"pw"}, ExpenseAmounts, Descriptions, Messages)

SpecLedger == InitLedger /\ [][NextLedger]_vars

\* The recommendation calls, over every policy dataset of two to MaxPolicies rows.
PolicyDatasets ==
    UNION {[1..n -> ROIs] : n \in 2..MaxPolicies}

InitPolicy ==
    /\ users_file = OkFile
    /\ session_state = DefaultSession
    /\ expenses_file = NoExpensesFile
    /\ user_account = UserAccount(InitialBalance, NoExpensesFile)
    /\ spam_account = SpamUserAccount(InitialBalance)
    /\ model_files = AllModelFiles
    /\ page = NoPage
    /\ last = NoCall
    /\ policy_data \in PolicyDatasets
    /\ recommendation = NoRecommendation

\* recommend_policy(monthly_investment, investment_duration, policy_data,
\* model_spending), given what model_spending predicts.
RecommendPolicy ==
    \E user_investment \in Investments, investment_duration \in Durations,
       predicted_category \in SpendingCategories :
        /\ recommendation' = recommend_policy(user_investment, investment_duration,
                                              preprocess_data(policy_data),
                                              predicted_category)
        /\ last' = [NoCall EXCEPT !.op = "recommend_policy", !.mod = "policy"]
        /\ UNCHANGED <<users_file, session_state, expenses_file, user_account,
                       spam_account, model_files, page, policy_data>>

NextPolicy == RecommendPolicy

SpecPolicy == InitPolicy /\ [][NextPolicy]_vars

\* ------------------------------------------------------------------ claims

Registered == last.op = "register_user" /\ last.ret = "True"

\* C1: register-then-login round trip.  After register_user(u, p) returned True on
\* a well-formed user file, authenticate(u, p) returns True and authenticate(u, q)
\* returns False for every password q whose hash differs from hash_password(p).
\* The code breaks it: the username written by save_user is read back by
\* pandas.read_csv as NaN (the empty string) or as a number ("7"), and equals no str.
C1_RegisterThenLogin ==
    (Registered /\ WellFormed(users_file)) =>
        /\ authenticate(last.mod, users_file, last.u, last.p) = "True"
        /\ \A q \in Passwords :
              hash_password(q) # hash_password(last.p) =>
                  authenticate(last.mod, users_file, last.u, q) = "False"

\* The user file holds a row written for username u.
HoldsRow(file, u) == \E i \in 1..Len(file.rows) : file.rows[i].username = u

\* C2: register_user(u, p) on a well-formed user file that already holds a row with
\* username u returns False and leaves the file unchanged, so that the passwords
\* that authenticate for u are the same after the call.
C2_RegisterExistingRejected ==
    [][(last'.op = "register_user" /\ WellFormed(users_file)
            /\ HoldsRow(users_file, last'.u)) =>
          /\ last'.ret = "False"
          /\ users_file' = users_file
          /\ \A q \in Passwords :
                authenticate(last'.mod, users_file', last'.u, q)
                    = authenticate(last'.mod, users_file, last'.u, q)]_vars

\* C3: username uniqueness.  Starting from the empty user table the program
\* creates, no two rows of the user file have the same username.
C3_UsernamesUnique ==
    WellFormed(users_file) =>
        \A i, j \in 1..Len(users_file.rows) :
            i # j => users_file.rows[i].username # users_file.rows[j].username

\* C4: the user file never holds a plaintext password.  Every stored password field
\* is the hash of a password and no password itself, the row a successful
\* register_user(u, p) appends holds hash_password(p), and authenticate returns True
\* only when a stored field equals the hash of the entered password.
C4_StoresOnlyHashes ==
    /\ \A i \in 1..Len(users_file.rows) :
          /\ users_file.rows[i].password \in {hash_password(p) : p \in Passwords}
          /\ users_file.rows[i].password \notin Passwords
    /\ (Registered /\ Len(users_file.rows) > 0) =>
          users_file.rows[Len(users_file.rows)]
              = [username |-> last.u, password |-> hash_password(last.p)]
    /\ (last.op = "authenticate" /\ last.ret = "True") =>
          \E i \in 1..Len(users_file.rows) :
              users_file.rows[i].password = hash_password(last.p)

\* A successful register_user has appended a row, and a later login matched one.
C4_Witness ==
    /\ Len(users_file.rows) = 2
    /\ last.op = "authenticate" /\ last.ret = "True"

\* C9: when the user file cannot be read (it is empty) or its header lacks the
\* username or the password column, authenticate returns False for every username
\* and password in main.py and in src/auth.py, raises nothing, and the session is
\* not logged in.
C9_UnreadableFileRejectsLogin ==
    ~WellFormed(users_file) =>
        /\ \A mod \in {"main", "auth"}, u \in Usernames, p \in Passwords :
              authenticate(mod, users_file, u, p) = "False"
        /\ last.op = "authenticate" => last.ret = "False"
        /\ session_state.username = <<>>
        /\ ~session_state.logged_in

\* src/auth.py's authenticate ran on a file that has rows but no password column.
C9_Witness ==
    /\ users_file.columns = {"username"}
    /\ users_file.rows # <<>>
    /\ last.op = "authenticate" /\ last.mod = "auth"

\* C5: the session gate of main.py.  A script run renders the dashboard exactly
\* when, at its start, the session username is non-empty and is_profile_set is
\* True, the profile setup exactly when the username is non-empty and
\* is_profile_set is False, and the login page otherwise; the session username
\* goes from empty to non-empty only in a run whose Login click had authenticate
\* return True, and a run whose authenticate returned False leaves it unchanged.
C5_SessionGate ==
    [][/\ page'.name # "none" =>
            /\ page'.name = "dashboard" <=>
                  (session_state.username # <<>> /\ session_state.is_profile_set)
            /\ page'.name = "profile" <=>
                  (session_state.username # <<>> /\ ~session_state.is_profile_set)
            /\ page'.name = "login" <=> session_state.username = <<>>
       /\ (session_state.username = <<>> /\ session_state'.username # <<>>) =>
            (last'.op = "Login" /\ last'.ret = "True" /\ session_state'.username = last'.u)
       /\ (last'.op = "Login" /\ last'.ret = "False") =>
            session_state'.username = session_state.username]_vars

\* The dashboard is rendered for a user who logged in with a numeric username.
C5_Witness ==
    /\ page.name = "dashboard"
    /\ session_state.username = <<"7">>
    /\ session_state.is_profile_set

\* C6: script runs are atomic, one at a time, so that (a) a registration succeeds
\* only for a username no row of the well-formed user file holds, and (b) a run
\* that writes the expense file loses no row written before.
C6_RunsNeverInterleave ==
    [][/\ (last'.op = "Sign Up" /\ last'.ret = "True" /\ WellFormed(users_file)) =>
            ~HoldsRow(users_file, last'.u)
       /\ Len(expenses_file'.rows) >= Len(expenses_file.rows)
       /\ \A i \in 1..Len(expenses_file.rows) :
            /\ expenses_file'.rows[i].type = expenses_file.rows[i].type
            /\ expenses_file'.rows[i].amount = expenses_file.rows[i].amount
            /\ expenses_file'.rows[i].category = expenses_file.rows[i].category
            /\ expenses_file'.rows[i].date = expenses_file.rows[i].date]_vars

\* The run of the step recorded a row: Add Expense, a credit, or a debit that the
\* balance covered.
RecordsRow(run) ==
    \/ run.op = "Add Expense"
    \/ "Transaction credited and balance updated!" \in run.shown
    \/ /\ "Transaction debited and balance updated!" \in run.shown
       /\ "Insufficient balance!" \notin run.shown

\* C7: the expense file is append-only.  A run of Add Expense, a credit or a
\* successful debit adds exactly one row, with the amount, category, date and
\* description of the run, and leaves every row stored before as it was; no other
\* run changes the file.
C7_ExpenseFileAppendOnly ==
    [][LET n == Len(expenses_file.rows)
       IN IF RecordsRow(last')
          THEN /\ Len(expenses_file'.rows) = n + 1
               /\ expenses_file'.rows[n + 1].amount = last'.amount
               /\ expenses_file'.rows[n + 1].date = Today
               /\ last'.op = "Add Expense" =>
                     /\ expenses_file'.rows[n + 1].category = last'.category
                     /\ expenses_file'.rows[n + 1].description = last'.description
               /\ \A i \in 1..n : expenses_file'.rows[i] = expenses_file.rows[i]
          ELSE expenses_file' = expenses_file]_vars

\* C8: classify_message returns 'spam' or 'ham' for every message, whatever the
\* state of the loaded model and vectorizer.
C8_ClassifyReturnsLabel ==
    last.op = "Analyze SMS" => last.ret \in {"spam", "ham"}

\* C10: no overdraft.  Starting from a non-negative balance, after any sequence of
\* credits and debits with non-negative amounts the balance of either UserAccount
\* class is not negative.
C10_NoOverdraft ==
    /\ user_account.balance >= 0
    /\ spam_account.balance >= 0

\* Both accounts were debited down to zero, and a further debit was refused.
C10_Witness ==
    /\ user_account.balance = 0 /\ user_account.transactions # <<>>
    /\ spam_account.balance = 0 /\ spam_account.transactions # <<>>
    /\ last.op = "debit" /\ last.ret = "Insufficient balance!"

\* C11: a rejected debit changes nothing.  debit(amount) with amount greater than
\* the balance leaves the balance and the transaction list of the account as they
\* were, in both classes, and in main.py does not rewrite data/expenses.csv.
C11_RejectedDebitChangesNothing ==
    [][/\ (last'.op = "debit" /\ last'.mod = "main"
              /\ last'.amount > user_account.balance) =>
            /\ user_account' = user_account
            /\ expenses_file' = expenses_file
            /\ last'.ret = "Insufficient balance!"
       /\ (last'.op = "debit" /\ last'.mod = "spam"
              /\ last'.amount > spam_account.balance) =>
            /\ spam_account' = spam_account
            /\ last'.ret = "Insufficient balance!"]_vars

\* main.py's debit was refused on an account that had recorded a transaction.
C11_Witness ==
    /\ last.op = "debit" /\ last.mod = "main"
    /\ last.ret = "Insufficient balance!"
    /\ user_account.transactions # <<>>
    /\ expenses_file.exists

\* The sum of the amounts of the rows of the given type, over a sequence of rows.
RECURSIVE SumOfType(_, _)
SumOfType(rows, type) ==
    IF rows = <<>> THEN 0
    ELSE (IF rows[1].type = type THEN rows[1].amount ELSE 0)
         + SumOfType(Tail(rows), type)

\* C12: balance accounting in main.py.  At the end of every script run the balance
\* of user_account is the initial 10000 plus the amounts of the credit rows minus
\* the amounts of the debit rows stored in data/expenses.csv.
C12_BalanceMatchesLedger ==
    last.mod = "main" =>
        user_account.balance = InitialBalance
                                 + SumOfType(expenses_file.rows, "credit")
                                 - SumOfType(expenses_file.rows, "debit")

\* The last row of data/expenses.csv is a row of the given type and amount.
LastRowIs(file, type, amount) ==
    /\ file.rows # <<>>
    /\ file.rows[Len(file.rows)].type = type
    /\ file.rows[Len(file.rows)].amount = amount

\* C13: in the Analyze SMS step, a run that shows "Transaction debited and balance
\* updated!" has decreased the balance by the extracted amount and recorded one
\* debit row, and a run that shows "Transaction credited and balance updated!"
\* has increased the balance by it and recorded one credit row.
C13_SuccessMessageMeansUpdated ==
    [][LET before == UserAccount(InitialBalance, expenses_file).balance
       IN /\ "Transaction debited and balance updated!" \in last'.shown =>
                /\ user_account'.balance = before - last'.amount
                /\ Len(expenses_file'.rows) = Len(expenses_file.rows) + 1
                /\ LastRowIs(expenses_file', "debit", last'.amount)
          /\ "Transaction credited and balance updated!" \in last'.shown =>
                /\ user_account'.balance = before + last'.amount
                /\ Len(expenses_file'.rows) = Len(expenses_file.rows) + 1
                /\ LastRowIs(expenses_file', "credit", last'.amount)]_vars

\* The account and the expense file after the step are what the run started with.
RunChangesNothing ==
    /\ user_account' = UserAccount(InitialBalance, expenses_file)
    /\ expenses_file' = expenses_file

\* C14: a message classified as 'spam' is never processed as a transaction.  A run
\* of Analyze SMS in which classify_message returns 'spam' leaves the balance, the
\* transaction list and data/expenses.csv as the run found them, and a run with
\* another label changes them only if extract_transaction_details gives a type
\* that is not None and an amount greater than 0.
C14_SpamNeverProcessed ==
    [][last'.op = "Analyze SMS" =>
          /\ last'.ret = "spam" => RunChangesNothing
          /\ (last'.ret # "spam" /\ ~RunChangesNothing) =>
                /\ extract_transaction_details(last'.message).type # "None"
                /\ extract_transaction_details(last'.message).amount > 0]_vars

\* A message that names a debit of 4000 was classified as spam, on an account that
\* has a recorded transaction.
C14_Witness ==
    /\ last.op = "Analyze SMS" /\ last.ret = "spam"
    /\ extract_transaction_details(last.message) = [type |-> "debit", amount |-> 4000]
    /\ user_account.transactions # <<>>

\* C15: extract_transaction_details returns type 'debit' whenever the debit
\* pattern matches (also when the credit pattern matches too), 'credit' when only
\* the credit pattern matches and None when neither matches; the amount is the
\* first 'INR' amount of the message with the commas removed, whatever the type,
\* or 0.0 when the message has no such amount.
C15_ExtractTypeAndAmount ==
    (last.op = "Analyze SMS" /\ last.ret # "spam") =>
        LET found == amount_pattern(last.message)
        IN /\ debit_pattern(last.message) => last.type = "debit"
           /\ (credit_pattern(last.message) /\ ~debit_pattern(last.message)) =>
                 last.type = "credit"
           /\ (~credit_pattern(last.message) /\ ~debit_pattern(last.message)) =>
                 last.type = "None"
           /\ found = <<>> => last.amount = 0
           /\ found # <<>> =>
                 DigitsOf(last.amount) \o <<".", "0", "0">>
                     = SelectSeq(found, LAMBDA c : c # ",")

\* Both patterns matched in the message of the run, and its amount had a comma.
C15_Witness ==
    /\ last.op = "Analyze SMS" /\ last.ret # "spam"
    /\ last.type = "debit" /\ last.amount = 12000
    /\ \E i \in 1..Len(last.message) : last.message[i] = ","

\* C16: logout.  From the dashboard, after the user clicks Profile and then Logout
\* (each button reads True only in the run its own click triggers), the run of
\* the Logout click clears the session state, so that the next run renders the
\* login page.
C16_LogoutClearsSession ==
    [][(/\ page.name = "dashboard" /\ last.op = "Profile"
        /\ "Logout" \in page.buttons
        /\ last'.op = "Logout") =>
           /\ session_state' = DefaultSession
           /\ gate(session_state') = "login"]_vars

\* The positions in the dataset of the policies the claim calls suitable.
SuitableByCategory(predicted) ==
    {i \in 1..Len(policy_data) :
        IF predicted = "Low" THEN ROICategory(policy_data[i]) = "Low"
        ELSE IF predicted = "Medium" THEN ROICategory(policy_data[i]) # "Very High"
        ELSE ROICategory(policy_data[i]) = "High"}

\* C17: recommend_policy selects the suitable policies by the predicted spending
\* category (Low: ROI Category 'Low'; Medium: every ROI Category except 'Very
\* High'; otherwise: ROI Category 'High'), shows at most 3 of them, and recommends
\* one whose potential return, investment x duration x Expected ROI / 100, is the
\* largest among the suitable policies; with no suitable policy it recommends
\* none.
C17_RecommendsLargestReturn ==
    recommendation.predicted # "none" =>
        LET r        == recommendation
            suitable == SuitableByCategory(r.predicted)
            return(i) == r.investment * r.duration * policy_data[i]
        IN /\ Len(r.top) <= 3
           /\ \A k \in 1..Len(r.top) : r.top[k].policy \in suitable
           /\ \A k, l \in 1..Len(r.top) : k # l => r.top[k].policy # r.top[l].policy
           /\ suitable = {} => r.best = NoPolicy
           /\ suitable # {} =>
                 /\ r.best.policy \in suitable
                 /\ r.best.potential = return(r.best.policy)
                 /\ \A j \in suitable : return(r.best.policy) >= return(j)

\* More than three policies were suitable, and the one recommended was neither the
\* first row of the dataset nor tied with another.
C17_Witness ==
    /\ recommendation.predicted = "Medium"
    /\ Cardinality(SuitableByCategory("Medium")) > 3
    /\ Len(recommendation.top) = 3
    /\ recommendation.best.policy > 1
    /\ \A i \in 1..Len(policy_data) :
           i # recommendation.best.policy =>
               policy_data[i] < policy_data[recommendation.best.policy]
    /\ recommendation.investment > 0

====
